---- MODULE Spec2Model ----
(***************************************************************************)
(* Model of src/telephony_service.py: the inbound-call webhook pipeline    *)
(* (beeline_webhook and the helpers it calls) and the baresip supervisor   *)
(* functions (prepare_baresip, start_baresip, startup).                    *)
(*                                                                         *)
(* The webhook pipeline is checked under Spec (FairSpec adds the event     *)
(* loop's fairness); the supervisor functions under SupSpec.               *)
(***************************************************************************)
EXTENDS Integers, Sequences, FiniteSets, TLC

\* ------------------------------------------------------------------ bounds

\* Number of inbound call events, one after the other (see Receive).
NumSessions == 1
\* The wall clock int(time.time()) takes the values 0..MaxClock.
MaxClock == 1
\* Number of service starts (each runs startup() once).
MaxStartups == 3
\* Number of start_baresip() calls.
MaxStartCalls == 2
\* Longest pre-existing ~/.baresip/config, in tokens.
MaxConfigLen == 3
MaxAgentLines == 2

Sessions == 1..NumSessions
\* Two calls whose handlers may overlap (see ReceiveOverlapping).
Overlapping == {1, 2}
\* Every handler task of the model.
Calls == Sessions \cup Overlapping
Clock == 0..MaxClock

\* --------------------------------------------------------- program constants

\* RECORD_SECONDS: fallback "30" of the [recording] record_seconds setting.
RECORD_SECONDS == 30
\* p.wait(timeout=RECORD_SECONDS+5)
WaitGrace == 5
\* The httpx timeouts, in seconds, as sets: {} is timeout=None.
\* httpx.AsyncClient(timeout=20) in tg_send
TgSendTimeout == {20}
\* httpx.AsyncClient(timeout=60) in tts_to_wav
TtsTimeout == {60}
\* httpx.AsyncClient(timeout=None) in stt_from_wav and tg_send_document
SttTimeout == {}
TgDocTimeout == {}

VARIABLES
    env,            \* module-level configuration read at import
    sess,           \* per handler task: its position and locals
    loop,           \* the task running on the event loop (0: loop is free)
    now,            \* int(time.time())
    files,          \* AUDIO_DIR/call_<t>.wav, by t
    stubWav,        \* AUDIO_DIR/stub_hello.wav: 0 absent, else its last writer
    fifo,           \* the auplay lines written to BARESIP_FIFO, by their writer
    config,         \* ~/.baresip/config: "absent" or its text as tokens
    prepareCalls,   \* prepare_baresip() calls so far
    cfgAfterFirst,  \* the config text as the first prepare_baresip() left it
    baresip_proc,   \* the module global baresip_proc
    exeExists,      \* Path("/usr/bin/baresip").exists()
    spawnCount,     \* baresip processes spawned so far
    startCalls,     \* start_baresip() calls so far
    startResult,    \* how the last start_baresip() call ended
    startupResult,  \* how the last startup() ended
    agent,          \* the baresip child process and its stdout pipe
    wr,             \* the wait_registered() call: position, result, deadline
    shutdownResult  \* which path the last shutdown() took

pipeVars == <<sess, loop, now, files, stubWav, fifo>>
agentVars == <<agent, wr, shutdownResult>>
supVars == <<config, prepareCalls, cfgAfterFirst, baresip_proc, exeExists,
             spawnCount, startCalls, startResult, startupResult, agentVars>>
vars == <<env, sess, loop, now, files, stubWav, fifo, config, prepareCalls,
          cfgAfterFirst, baresip_proc, exeExists, spawnCount, startCalls,
          startResult, startupResult, agent, wr, shutdownResult>>

\* ------------------------------------------------------------ configuration

\* BEELINE_API_TOKEN, OPENAI_API_KEY, TELEGRAM_BOT_TOKEN: "" when unset.
\* TELEGRAM_CHAT_ID defaults to a non-empty value.
EnvChoices ==
    [BEELINE_API_TOKEN : {"", "secret"},
     OPENAI_API_KEY : {"", "sk"},
     TELEGRAM_BOT_TOKEN : {"", "bot"},
     TELEGRAM_CHAT_ID : {"@NeurosferaTech"}]

\* The X-Api-Token header of a request: absent, the secret, something else.
Headers == {"None", "secret", "wrong"}
\* The request body: a JSON object, not JSON at all, a JSON array.
Bodies == {"object", "malformed", "array"}

\* ---------------------------------------------------------------- network

\* What the remote end of an HTTP request does: it answers, the request
\* fails with an error, it never answers.  tts_to_wav and stt_from_wav call
\* raise_for_status(); tg_send and tg_send_document do not look at the
\* answer, so for them "ok" is any answer and "error" a transport error.
NetOutcomes == {"ok", "error", "silent"}

\* client.post(...) under an httpx timeout: a silent peer raises a timeout
\* error when a timeout is set and is awaited forever under timeout=None.
HttpResult(timeout, outcome) ==
    IF outcome = "silent"
    THEN IF timeout = {} THEN "hang" ELSE "error"
    ELSE outcome

\* ------------------------------------------------------------ handler state

NoPath == 0 - 1

IdleSession ==
    [pc |-> "idle", resp |-> "none", hdr |-> "None", isDict |-> TRUE,
     net |-> "none", log |-> <<>>, recPath |-> NoPath, cap |-> "none",
     capLimit |-> 0, text |-> "none"]

NoFile == [exists |-> FALSE, dur |-> 0, by |-> 0]

\* StepOrder with a fault: the wait for the capture before the summary.
StepOrderWaitFirst ==
    <<"tts", "auplay", "record", "wait", "summary", "stt", "transcript",
      "doc", "return">>

\* The statements of beeline_webhook after the token check, in order.
StepOrder ==
    <<"tts", "auplay", "record", "summary", "wait", "stt", "transcript",
      "doc", "return">>

\* The statement that follows `step` in beeline_webhook.
After(step) ==
    LET i == CHOOSE k \in 1..Len(StepOrder) : StepOrder[k] = step
    IN StepOrder[i + 1]

Put(s, r) == sess' = [sess EXCEPT ![s] = r]

\* An exception leaves the handler: FastAPI answers 500.
Raised(r) == [r EXCEPT !.pc = "done", !.resp = "500", !.net = "none"]

\* return JSONResponse({"ok": True}), or the next statement.
Goto(r, step) ==
    IF step = "return"
    THEN [r EXCEPT !.pc = "done", !.resp = "200", !.net = "none"]
    ELSE [r EXCEPT !.pc = step, !.net = "none"]

Logged(r, e) == [r EXCEPT !.log = Append(@, e)]

\* A task may run when the loop is free or it is the one running.
MayRun(s) == loop \in {0, s}

\* ------------------------------------------------------------ the webhook

\* Rejected with a fault: only a header that is present is compared.
RejectedWhenPresent(h) ==
    /\ env.BEELINE_API_TOKEN # ""
    /\ h # "None"
    /\ h # env.BEELINE_API_TOKEN

\* if BEELINE_API_TOKEN and x_api_token != BEELINE_API_TOKEN: raise 401
Rejected(h) ==
    /\ env.BEELINE_API_TOKEN # ""
    /\ h # env.BEELINE_API_TOKEN

\* try: payload = await request.json()  except Exception: payload = {}
ParsedIsDict(body) == body # "array"

\* The request arrives: the token check, then the body is read.
Accept(s) ==
    /\ sess[s].pc = "idle"
    /\ loop = 0
    /\ \E h \in Headers, body \in Bodies :
          IF Rejected(h)
          THEN Put(s, [sess[s] EXCEPT !.pc = "done", !.resp = "401", !.hdr = h])
          ELSE Put(s, [sess[s] EXCEPT !.pc = StepOrder[1], !.hdr = h,
                                      !.isDict = ParsedIsDict(body)])
    /\ UNCHANGED <<env, loop, now, files, stubWav, fifo, supVars>>

\* Calls are numbered in their order of arrival.  On a single line the next
\* call arrives after the handler of the one before has returned.
Receive(s) ==
    /\ \A o \in Sessions : o < s => sess[o].pc = "done"
    /\ Accept(s)

\* Without that assumption the next call may arrive at any time.
ReceiveOverlapping(s) ==
    /\ \A o \in Overlapping : o < s => sess[o].pc # "idle"
    /\ Accept(s)

\* tts_to_wav up to its POST: raises when OPENAI_API_KEY is empty.
TtsStart(s) ==
    /\ sess[s].pc = "tts"
    /\ MayRun(s)
    /\ IF env.OPENAI_API_KEY = ""
       THEN Put(s, Raised(sess[s]))
       ELSE \E o \in NetOutcomes :
               Put(s, [sess[s] EXCEPT !.pc = "tts_await", !.net = o])
    /\ loop' = 0
    /\ UNCHANGED <<env, now, files, stubWav, fifo, supVars>>

\* The TTS answer: raise_for_status(), then out_path.write_bytes.
TtsDone(s) ==
    /\ sess[s].pc = "tts_await"
    /\ loop = 0
    /\ LET res == HttpResult(TtsTimeout, sess[s].net) IN
       /\ res # "hang"
       /\ IF res = "ok"
          THEN /\ Put(s, Goto(Logged(sess[s], "tts_ok"), After("tts")))
               /\ stubWav' = s
               /\ loop' = s
          ELSE /\ Put(s, Raised(sess[s]))
               /\ loop' = 0
               /\ UNCHANGED stubWav
    /\ UNCHANGED <<env, now, files, fifo, supVars>>

\* BARESIP_FIFO.exists() when auplay runs.
FifoStates == {"missing", "ready"}

\* auplay(wav) of session s: RuntimeError before the FIFO is opened when
\* it is missing, else one line written to it.
AuplayWrite(f, lines, s) ==
    IF f = "missing"
    THEN [raised |-> TRUE, lines |-> lines]
    ELSE [raised |-> FALSE, lines |-> Append(lines, s)]

\* AuplayExcept with a fault: the exception is logged and raised again.
AuplayExceptReraises(r) == Raised(Logged(r, "auplay_failed"))

\* except Exception as e: logging.exception("auplay failed: %s", e)
AuplayExcept(r) == Goto(Logged(r, "auplay_failed"), After("auplay"))

\* try: auplay(tts_wav)  except Exception: logging.exception(...)
Auplay(s) ==
    /\ sess[s].pc = "auplay"
    /\ loop = s
    /\ \E f \in FifoStates :
          LET w == AuplayWrite(f, fifo, s) IN
          /\ fifo' = w.lines
          /\ IF w.raised
             THEN Put(s, AuplayExcept(sess[s]))
             ELSE Put(s, Goto(Logged(sess[s], "auplay"), After("auplay")))
    /\ UNCHANGED <<env, loop, now, files, stubWav, supVars>>

\* rec = AUDIO_DIR / f"call_{int(time.time())}.wav"
RecPath == now

\* CaptureLimit with a fault: the capture runs for as long as the wait.
CaptureLimitOfWait(secs) == secs + WaitGrace

\* ffmpeg ... -t str(secs): the capture's duration limit.
CaptureLimit(secs) == secs

\* subprocess.Popen(cmd): the process, or OSError.
PopenOutcomes == {"spawned", "oserror"}

\* p = start_record(rec, RECORD_SECONDS)
StartRecord(s) ==
    /\ sess[s].pc = "record"
    /\ loop = s
    /\ \E o \in PopenOutcomes :
          IF o = "spawned"
          THEN /\ Put(s, Goto(Logged([sess[s] EXCEPT
                                         !.recPath = RecPath,
                                         !.cap = "running",
                                         !.capLimit = CaptureLimit(RECORD_SECONDS)],
                                     "rec_start"), After("record")))
               /\ UNCHANGED loop
          ELSE /\ Put(s, Raised([sess[s] EXCEPT !.cap = "unavailable"]))
               /\ loop' = 0
    /\ UNCHANGED <<env, now, files, stubWav, fifo, supVars>>

\* if not TELEGRAM_BOT_TOKEN or not TELEGRAM_CHAT_ID: return
TgConfigured == env.TELEGRAM_BOT_TOKEN # "" /\ env.TELEGRAM_CHAT_ID # ""

\* payload.get(...) x3, then await tg_send(summary): a payload that is no
\* dict raises AttributeError.
Summary(s) ==
    /\ sess[s].pc = "summary"
    /\ loop = s
    /\ IF ~sess[s].isDict
       THEN /\ Put(s, Raised(sess[s]))
            /\ loop' = 0
       ELSE IF ~TgConfigured
       THEN /\ Put(s, Goto(Logged(sess[s], "summary_call"), After("summary")))
            /\ UNCHANGED loop
       ELSE /\ \E o \in NetOutcomes :
                  Put(s, [Logged(sess[s], "summary_call") EXCEPT
                             !.pc = "sum_await", !.net = o])
            /\ loop' = 0
    /\ UNCHANGED <<env, now, files, stubWav, fifo, supVars>>

\* The sendMessage answer; an httpx error propagates out of tg_send.
SummaryDone(s) ==
    /\ sess[s].pc = "sum_await"
    /\ loop = 0
    /\ LET res == HttpResult(TgSendTimeout, sess[s].net) IN
       /\ res # "hang"
       /\ IF res = "ok"
          THEN /\ Put(s, Goto(Logged(sess[s], "summary_sent"), After("summary")))
               /\ loop' = s
          ELSE /\ Put(s, Raised(sess[s]))
               /\ loop' = 0
    /\ UNCHANGED <<env, now, files, stubWav, fifo, supVars>>

\* p.wait(timeout=RECORD_SECONDS+5): the bound of the blocking wait.
WaitTimeout == RECORD_SECONDS + WaitGrace

\* p.wait(...) returns: the capture process has exited.
WaitReturn(s) ==
    /\ sess[s].pc = "wait"
    /\ loop = s
    /\ sess[s].cap \in {"exited", "failed"}
    /\ Put(s, Goto(Logged(sess[s], "wait_done"), After("wait")))
    /\ UNCHANGED <<env, loop, now, files, stubWav, fifo, supVars>>

\* What a killed capture leaves at its path: a partial recording.
PartialDurs(limit) == {0, limit - 1}

\* except subprocess.TimeoutExpired: p.kill() -- the capture is still
\* running WaitTimeout seconds into the wait.
WaitExpired(s) ==
    /\ sess[s].pc = "wait"
    /\ loop = s
    /\ sess[s].cap = "running"
    /\ \E d \in PartialDurs(sess[s].capLimit) :
          files' = [files EXCEPT ![sess[s].recPath] =
                       [exists |-> TRUE, dur |-> d, by |-> s]]
    /\ Put(s, Goto(Logged([sess[s] EXCEPT !.cap = "killed"], "wait_timeout"),
                   After("wait")))
    /\ UNCHANGED <<env, loop, now, stubWav, fifo, supVars>>

\* ffmpeg ends by itself after -t seconds of audio and leaves the file.
CaptureExit(s) ==
    /\ sess[s].cap = "running"
    /\ files' = [files EXCEPT ![sess[s].recPath] =
                    [exists |-> TRUE, dur |-> sess[s].capLimit, by |-> s]]
    /\ Put(s, [sess[s] EXCEPT !.cap = "exited"])
    /\ UNCHANGED <<env, loop, now, stubWav, fifo, supVars>>

\* ffmpeg ends with an error (no capture device) and writes nothing.
CaptureFail(s) ==
    /\ sess[s].cap = "running"
    /\ Put(s, [sess[s] EXCEPT !.cap = "failed"])
    /\ UNCHANGED <<env, loop, now, files, stubWav, fifo, supVars>>

\* rec.exists() / wav.open("rb")
RecExists(s) == files[sess[s].recPath].exists

\* stt_from_wav up to its POST: the placeholder without a key, else
\* wav.open("rb"), which raises when the recording is not there.
SttStart(s) ==
    /\ sess[s].pc = "stt"
    /\ loop = s
    /\ LET r == Logged(sess[s], "stt_invoked") IN
       IF env.OPENAI_API_KEY = ""
       THEN /\ Put(s, Goto([r EXCEPT !.text = "(no OPENAI_API_KEY; skip STT)"],
                           After("stt")))
            /\ UNCHANGED loop
       ELSE IF ~RecExists(s)
       THEN /\ Put(s, Raised(r))
            /\ loop' = 0
       ELSE /\ \E o \in NetOutcomes :
                  Put(s, [r EXCEPT !.pc = "stt_await", !.net = o])
            /\ loop' = 0
    /\ UNCHANGED <<env, now, files, stubWav, fifo, supVars>>

\* The text field of the Whisper answer.
SttTexts == {"", "hello"}

\* (r.json().get("text") or "").strip() or "(пусто)"
Transcribed(txt) == IF txt = "" THEN "(empty)" ELSE txt

\* The transcription answer; there is no timeout on this request.
SttDone(s) ==
    /\ sess[s].pc = "stt_await"
    /\ loop = 0
    /\ LET res == HttpResult(SttTimeout, sess[s].net) IN
       /\ res # "hang"
       /\ IF res = "ok"
          THEN /\ \E txt \in SttTexts :
                     Put(s, Goto([sess[s] EXCEPT !.text = Transcribed(txt)],
                                 After("stt")))
               /\ loop' = s
          ELSE /\ Put(s, Raised(sess[s]))
               /\ loop' = 0
    /\ UNCHANGED <<env, now, files, stubWav, fifo, supVars>>

\* await tg_send(transcript)
Transcript(s) ==
    /\ sess[s].pc = "transcript"
    /\ loop = s
    /\ IF ~TgConfigured
       THEN /\ Put(s, Goto(Logged(sess[s], "transcript_call"), After("transcript")))
            /\ UNCHANGED loop
       ELSE /\ \E o \in NetOutcomes :
                  Put(s, [Logged(sess[s], "transcript_call") EXCEPT
                             !.pc = "tr_await", !.net = o])
            /\ loop' = 0
    /\ UNCHANGED <<env, now, files, stubWav, fifo, supVars>>

TranscriptDone(s) ==
    /\ sess[s].pc = "tr_await"
    /\ loop = 0
    /\ LET res == HttpResult(TgSendTimeout, sess[s].net) IN
       /\ res # "hang"
       /\ IF res = "ok"
          THEN /\ Put(s, Goto(Logged(sess[s], "transcript_sent"), After("transcript")))
               /\ loop' = s
          ELSE /\ Put(s, Raised(sess[s]))
               /\ loop' = 0
    /\ UNCHANGED <<env, now, files, stubWav, fifo, supVars>>

\* if rec.exists(): await tg_send_document(rec, ...)
Doc(s) ==
    /\ sess[s].pc = "doc"
    /\ loop = s
    /\ IF RecExists(s) /\ TgConfigured
       THEN \E o \in NetOutcomes :
               Put(s, [Logged(sess[s], "doc_call") EXCEPT
                          !.pc = "doc_await", !.net = o])
       ELSE Put(s, Goto(sess[s], After("doc")))
    /\ loop' = 0
    /\ UNCHANGED <<env, now, files, stubWav, fifo, supVars>>

\* The sendDocument answer; there is no timeout on this request.
DocDone(s) ==
    /\ sess[s].pc = "doc_await"
    /\ loop = 0
    /\ LET res == HttpResult(TgDocTimeout, sess[s].net) IN
       /\ res # "hang"
       /\ IF res = "ok"
          THEN Put(s, Goto(Logged(sess[s], "doc_sent"), After("doc")))
          ELSE Put(s, Raised(sess[s]))
    /\ UNCHANGED <<env, loop, now, files, stubWav, fifo, supVars>>

\* One second passes.
Tick ==
    /\ now < MaxClock
    /\ now' = now + 1
    /\ UNCHANGED <<env, sess, loop, files, stubWav, fifo, supVars>>

\* A step of the handler task of call s after the request was accepted.
PipelineStep(s) ==
    \/ TtsStart(s)
    \/ TtsDone(s)
    \/ Auplay(s)
    \/ StartRecord(s)
    \/ Summary(s)
    \/ SummaryDone(s)
    \/ WaitReturn(s)
    \/ WaitExpired(s)
    \/ SttStart(s)
    \/ SttDone(s)
    \/ Transcript(s)
    \/ TranscriptDone(s)
    \/ Doc(s)
    \/ DocDone(s)

\* What the machine does besides the handlers.
Environment ==
    \/ \E s \in Calls : CaptureExit(s)
    \/ \E s \in Calls : CaptureFail(s)
    \/ Tick

\* ------------------------------------------------------------ the supervisor

\* A text is the sequence of its tokens: words, runs of spaces, line ends.
Pad18 == "                  "
Pad15 == "               "
Pad12 == "            "
Pad9 == "         "

\* What prepare_baresip writes, f.write by f.write.
DirectiveBlock ==
    <<"\n", "# --- Neurosfera telephony additions ---", "\n">>
    \o <<"module", Pad18, "fifo", "\n">>
    \o <<"fifo_path", Pad15, "/tmp/baresip_cmd", "\n">>
    \o <<"call_autoanswer", Pad9, "yes", "\n">>
    \o <<"audio_player", Pad12, "aufile,alsa,pipewire,portaudio", "\n">>
    \o <<"auplay_srate", Pad12, "8000", "\n">>
    \o <<"auplay_channels", Pad9, "1", "\n">>

\* The string "module fifo" that prepare_baresip looks for.
ModuleFifo == <<"module", " ", "fifo">>

\* pat in text
Contains(text, pat) ==
    \E i \in 1..(Len(text) - Len(pat) + 1) :
        SubSeq(text, i, i + Len(pat) - 1) = pat

\* not BARESIP_CONFIG.exists() or "module fifo" not in its text
NeedsDirectives(c) == ~c.exists \/ ~Contains(c.text, ModuleFifo)

\* prepare_baresip(): append the directive block unless it is found.
PreparedConfig(c) ==
    IF NeedsDirectives(c)
    THEN [exists |-> TRUE, text |-> c.text \o DirectiveBlock]
    ELSE c

\* startup(): prepare_baresip(), then the "service is up" message; an
\* httpx error of tg_send propagates and fails the startup.
Startup ==
    /\ prepareCalls < MaxStartups
    /\ prepareCalls' = prepareCalls + 1
    /\ config' = PreparedConfig(config)
    /\ cfgAfterFirst' = IF prepareCalls = 0 THEN config' ELSE cfgAfterFirst
    /\ IF TgConfigured
       THEN \E o \in NetOutcomes :
               startupResult' = IF HttpResult(TgSendTimeout, o) = "ok"
                                THEN "up" ELSE "failed"
       ELSE startupResult' = "up"
    /\ UNCHANGED <<env, pipeVars, baresip_proc, exeExists, spawnCount,
                   startCalls, startResult, agentVars>>

\* start_baresip assigns baresip_proc and has no `global baresip_proc`,
\* so the name is a local of the function, unbound when it is first read.
StartBaresipDeclaresGlobal == FALSE

\* start_baresip()
StartBaresip ==
    /\ startCalls < MaxStartCalls
    /\ startCalls' = startCalls + 1
    /\ IF ~StartBaresipDeclaresGlobal
       THEN /\ startResult' = "UnboundLocalError"
            /\ UNCHANGED <<baresip_proc, spawnCount, agent>>
       ELSE IF baresip_proc # "None"
       THEN /\ startResult' = "noop"
            /\ UNCHANGED <<baresip_proc, spawnCount, agent>>
       ELSE IF ~exeExists
       THEN /\ startResult' = "no_exe"
            /\ UNCHANGED <<baresip_proc, spawnCount, agent>>
       ELSE /\ startResult' = "spawned"
            /\ baresip_proc' = "Popen"
            /\ spawnCount' = spawnCount + 1
            /\ agent' = [agent EXCEPT !.state = "running"]
    /\ UNCHANGED <<env, pipeVars, config, prepareCalls, cfgAfterFirst,
                   exeExists, startupResult, wr, shutdownResult>>

\* -------------------------------------------------- the baresip process

\* The lines baresip prints, at most MaxAgentLines of them in a run.
AgentLines == {"Registered", "registered", "other"}

\* line.lower()
Lower(line) == IF line = "Registered" THEN "registered" ELSE line

\* "registered" in line.lower()
MentionsRegistered(line) == Lower(line) = "registered"

\* The child process prints a line to its stdout pipe.
AgentEmit ==
    /\ agent.state = "running"
    /\ agent.emitted < MaxAgentLines
    /\ \E line \in AgentLines :
          agent' = [agent EXCEPT !.out = Append(@, line), !.emitted = @ + 1]
    /\ UNCHANGED <<env, pipeVars, config, prepareCalls, cfgAfterFirst,
                   baresip_proc, exeExists, spawnCount, startCalls,
                   startResult, startupResult, wr, shutdownResult>>

\* The child process exits by itself; its end of the pipe is closed.
AgentExit ==
    /\ agent.state = "running"
    /\ agent' = [agent EXCEPT !.state = "exited"]
    /\ UNCHANGED <<env, pipeVars, config, prepareCalls, cfgAfterFirst,
                   baresip_proc, exeExists, spawnCount, startCalls,
                   startResult, startupResult, wr, shutdownResult>>

\* baresip_proc.poll() is None
PollIsNone == agent.state = "running"

\* How a running baresip reacts to SIGTERM within the wait of shutdown().
TermReactions == {"exits", "ignores"}

\* AfterGrace with a fault: TimeoutExpired is swallowed, nothing is killed.
AfterGraceNoKill(reaction) ==
    IF reaction = "exits" THEN "terminated" ELSE "running"

\* try: baresip_proc.wait(timeout=5)
\* except subprocess.TimeoutExpired: baresip_proc.kill()
AfterGrace(reaction) ==
    IF reaction = "exits" THEN "terminated" ELSE "killed"

\* The event loop is not inside the synchronous part of wait_registered.
LoopFree == wr.pc \in {"idle", "sleep", "done"}

\* shutdown()
Shutdown ==
    /\ LoopFree
    /\ IF baresip_proc # "None" /\ PollIsNone
       THEN \E reaction \in TermReactions :
               /\ agent' = [agent EXCEPT !.state = AfterGrace(reaction)]
               /\ shutdownResult' = IF reaction = "exits"
                                    THEN "graceful" ELSE "forced"
       ELSE /\ shutdownResult' = "noop"
            /\ UNCHANGED agent
    /\ UNCHANGED <<env, pipeVars, config, prepareCalls, cfgAfterFirst,
                   baresip_proc, exeExists, spawnCount, startCalls,
                   startResult, startupResult, wr>>

\* wait_registered(): the guard on baresip_proc, then start = time.time().
\* A Popen made with stdout=PIPE always has its stdout.
WrCall ==
    /\ wr.pc = "idle"
    /\ IF baresip_proc = "None"
       THEN wr' = [wr EXCEPT !.pc = "done", !.result = "False"]
       ELSE wr' = [wr EXCEPT !.pc = "check"]
    /\ UNCHANGED <<env, pipeVars, config, prepareCalls, cfgAfterFirst,
                   baresip_proc, exeExists, spawnCount, startCalls,
                   startResult, startupResult, agent, shutdownResult>>

\* time.time() - start reaches the timeout while the call is in progress.
WrDeadline ==
    /\ wr.pc \in {"check", "read", "sleep"}
    /\ ~wr.expired
    /\ wr' = [wr EXCEPT !.expired = TRUE]
    /\ UNCHANGED <<env, pipeVars, config, prepareCalls, cfgAfterFirst,
                   baresip_proc, exeExists, spawnCount, startCalls,
                   startResult, startupResult, agent, shutdownResult>>

\* while time.time() - start < timeout: ...   return False
WrCheck ==
    /\ wr.pc = "check"
    /\ IF wr.expired
       THEN wr' = [wr EXCEPT !.pc = "done", !.result = "False"]
       ELSE wr' = [wr EXCEPT !.pc = "read"]
    /\ UNCHANGED <<env, pipeVars, config, prepareCalls, cfgAfterFirst,
                   baresip_proc, exeExists, spawnCount, startCalls,
                   startResult, startupResult, agent, shutdownResult>>

\* baresip_proc.stdout.readline() on the pipe: it returns a line that is
\* there, "" at end of file, and otherwise does not return until the
\* process prints or closes the pipe.
ReadlineBlocks == agent.out = <<>> /\ agent.state = "running"

\* line = baresip_proc.stdout.readline() and the rest of the loop body.
WrRead ==
    /\ wr.pc = "read"
    /\ ~ReadlineBlocks
    /\ IF agent.out = <<>>
       THEN /\ wr' = [wr EXCEPT !.pc = "sleep"]
            /\ UNCHANGED agent
       ELSE /\ agent' = [agent EXCEPT !.out = Tail(@)]
            /\ IF MentionsRegistered(Head(agent.out))
               THEN wr' = [wr EXCEPT !.pc = "done", !.result = "True"]
               ELSE wr' = [wr EXCEPT !.pc = "check"]
    /\ UNCHANGED <<env, pipeVars, config, prepareCalls, cfgAfterFirst,
                   baresip_proc, exeExists, spawnCount, startCalls,
                   startResult, startupResult, shutdownResult>>

\* await asyncio.sleep(0.1); continue
WrWake ==
    /\ wr.pc = "sleep"
    /\ wr' = [wr EXCEPT !.pc = "check"]
    /\ UNCHANGED <<env, pipeVars, config, prepareCalls, cfgAfterFirst,
                   baresip_proc, exeExists, spawnCount, startCalls,
                   startResult, startupResult, agent, shutdownResult>>

\* The tokens a config file found at startup is made of.
ConfigTokens == {"module", "fifo", " ", Pad18, "\n"}

SeqsUpTo(S, n) == UNION {[1..k -> S] : k \in 0..n}

\* ~/.baresip/config before the service ever ran.
InitialConfigs ==
    {[exists |-> FALSE, text |-> <<>>]}
    \cup {[exists |-> TRUE, text |-> x] : x \in SeqsUpTo(ConfigTokens, MaxConfigLen)}

NoCalls ==
    /\ sess = [s \in Calls |-> IdleSession]
    /\ loop = 0
    /\ now = 0
    /\ files = [t \in Clock |-> NoFile]
    /\ stubWav = 0
    /\ fifo = <<>>

\* No supervisor function has been called yet.
NothingCalled ==
    /\ prepareCalls = 0
    /\ cfgAfterFirst = config
    /\ spawnCount = 0
    /\ startCalls = 0
    /\ startResult = "none"
    /\ startupResult = "none"
    /\ wr = [pc |-> "idle", result |-> "none", expired |-> FALSE]
    /\ shutdownResult = "none"

\* baresip_proc: Optional[subprocess.Popen] = None
SupIdle ==
    /\ NothingCalled
    /\ baresip_proc = "None"
    /\ agent = [state |-> "none", out |-> <<>>, emitted |-> 0]

\* ------------------------------------------------------------ specification

\* The service is up: startup() has prepared the config.
Init ==
    /\ env \in EnvChoices
    /\ NoCalls
    /\ config = PreparedConfig([exists |-> FALSE, text |-> <<>>])
    /\ exeExists = TRUE
    /\ SupIdle

Next ==
    \/ \E s \in Sessions : Receive(s)
    \/ \E s \in Sessions : PipelineStep(s)
    \/ Environment

Spec == Init /\ [][Next]_vars

\* The event loop runs every task that is ready.
FairSpec == Spec /\ \A s \in Sessions : WF_vars(PipelineStep(s))

OverlapNext ==
    \/ \E s \in Overlapping : ReceiveOverlapping(s)
    \/ \E s \in Overlapping : PipelineStep(s)
    \/ Environment

\* Overlapping calls are followed on the fully configured service.
OverlapInit ==
    /\ Init
    /\ env.BEELINE_API_TOKEN = "secret"
    /\ env.OPENAI_API_KEY = "sk"
    /\ env.TELEGRAM_BOT_TOKEN = "bot"

OverlapSpec == OverlapInit /\ [][OverlapNext]_vars

\* The service before its first start.
SupInit ==
    /\ env \in EnvChoices
    /\ env.BEELINE_API_TOKEN = "" /\ env.OPENAI_API_KEY = ""
    /\ NoCalls
    /\ config \in InitialConfigs
    /\ exeExists \in BOOLEAN
    /\ SupIdle

SupNext ==
    \/ Startup
    \/ StartBaresip

SupSpec == SupInit /\ [][SupNext]_vars

\* wait_registered and shutdown are followed for every value of
\* baresip_proc: Optional[subprocess.Popen]: None, or the handle of a child
\* that runs or has exited.
AgentInit ==
    /\ env \in EnvChoices
    /\ env.BEELINE_API_TOKEN = "" /\ env.OPENAI_API_KEY = ""
    /\ env.TELEGRAM_BOT_TOKEN = ""
    /\ NoCalls
    /\ config = PreparedConfig([exists |-> FALSE, text |-> <<>>])
    /\ exeExists = TRUE
    /\ NothingCalled
    /\ baresip_proc \in {"None", "Popen"}
    /\ agent \in [state : {"none", "running", "exited"},
                  out : {<<>>}, emitted : {0}]
    /\ agent.state = "none" <=> baresip_proc = "None"

AgentNext ==
    \/ AgentEmit
    \/ AgentExit
    \/ Shutdown
    \/ WrCall
    \/ WrDeadline
    \/ WrCheck
    \/ WrRead
    \/ WrWake

AgentSpec == AgentInit /\ [][AgentNext]_vars

\* ------------------------------------------------------------------ claims

Has(s, e) == \E i \in DOMAIN sess[s].log : sess[s].log[i] = e

\* Every e in the log of s has an f before it.
Precedes(s, f, e) ==
    \A i \in DOMAIN sess[s].log :
        sess[s].log[i] = e => \E j \in 1..(i - 1) : sess[s].log[j] = f

Count(s, e) == Cardinality({i \in DOMAIN sess[s].log : sess[s].log[i] = e})

\* The handler of s has returned or raised.
Left(s) == sess[s].pc = "done"

\* The request of s passed the token check.
Accepted(s) == sess[s].pc # "idle" /\ sess[s].resp # "401"

\* The greeting synthesis of s was tried and did not produce the greeting.
TtsFailed(s) == Accepted(s) /\ Left(s) /\ ~Has(s, "tts_ok")

\* C1: whenever the greeting synthesis of an accepted call fails or is
\* unavailable, the handler still starts the recording capture.
C1_GreetingFailureStillRecords ==
    \A s \in Sessions : TtsFailed(s) => Has(s, "rec_start")

\* The capture of s could not be launched, or ended without a recording file.
RecordingFailed(s) ==
    \/ sess[s].cap = "unavailable"
    \/ sess[s].cap = "failed" /\ ~RecExists(s)

\* C2: whenever the recording of an accepted call fails or is unavailable,
\* stt_from_wav is not invoked and a notification carrying the
\* "(no recording)" marker is still sent before the handler is left.
C2_NoRecordingSkipsSttAndNotifies ==
    \A s \in Sessions :
        (Left(s) /\ RecordingFailed(s)) =>
            /\ ~Has(s, "stt_invoked")
            /\ Has(s, "transcript_sent")
            /\ sess[s].text = "(no recording)"

\* C3: in every call session the summary tg_send is issued after
\* start_record and before p.wait returns or times out; with Telegram
\* configured its delivery has completed by then.
C3_SummaryBetweenRecordAndWait ==
    \A s \in Sessions :
        /\ Precedes(s, "rec_start", "summary_call")
        /\ Precedes(s, "summary_call", "wait_done")
        /\ Precedes(s, "summary_call", "wait_timeout")
        /\ TgConfigured =>
              /\ Precedes(s, "summary_sent", "wait_done")
              /\ Precedes(s, "summary_sent", "wait_timeout")

\* C3 witness: a session whose wait returned after the summary was delivered.
C3_Witness ==
    \E s \in Sessions :
        Has(s, "rec_start") /\ Has(s, "summary_sent") /\ Has(s, "wait_done")

\* C4: every accepted call session eventually reaches a terminal stage
\* (the handler returns or raises), whatever the external steps do.
C4_EveryCallTerminates ==
    \A s \in Sessions : (sess[s].pc = "tts") ~> Left(s)

\* No side effect of the pipeline has happened for s.
NoSideEffect(s) ==
    /\ sess[s].log = <<>>
    /\ sess[s].cap = "none"
    /\ sess[s].recPath = NoPath
    /\ stubWav # s
    /\ \A t \in Clock : files[t].by # s

\* C5: with no token configured no request is rejected; with a token
\* configured a request whose header is absent or different is answered
\* 401 and nothing of the pipeline has happened for it.
C5_AuthGate ==
    \A s \in Sessions :
        /\ env.BEELINE_API_TOKEN = "" => sess[s].resp # "401"
        /\ (sess[s].pc # "idle" /\ env.BEELINE_API_TOKEN # ""
              /\ sess[s].hdr # env.BEELINE_API_TOKEN) =>
                 sess[s].resp = "401" /\ Left(s)
        /\ sess[s].resp = "401" => NoSideEffect(s)

\* C5 witness: a request without the header was rejected.
C5_Witness ==
    \E s \in Sessions :
        /\ env.BEELINE_API_TOKEN # ""
        /\ sess[s].hdr = "None"
        /\ sess[s].resp = "401"

\* C6: every start_baresip() call returns (a no-op when a process is
\* already there), and no sequence of calls spawns a second process.
C6_StartIdempotent ==
    /\ spawnCount <= 1
    /\ startCalls >= 1 => startResult \in {"noop", "no_exe", "spawned"}
    /\ (startCalls >= 2 /\ exeExists) => startResult = "noop"

\* The sendMessage notifications delivered for s, in order.
TextNotifications(s) ==
    SelectSeq(sess[s].log, LAMBDA e : e \in {"summary_sent", "transcript_sent"})

\* The call of s went through with every backend answering.
Healthy(s) ==
    /\ Left(s)
    /\ sess[s].resp = "200"
    /\ TgConfigured
    /\ sess[s].cap = "exited"

\* C7: a call handled with all backends healthy has produced exactly two
\* text notifications, the summary and then the transcript, and one
\* recording whose duration is at most RECORD_SECONDS.
C7_HealthyCall ==
    \A s \in Sessions :
        Healthy(s) =>
            /\ TextNotifications(s) = <<"summary_sent", "transcript_sent">>
            /\ Count(s, "rec_start") = 1
            /\ RecExists(s)
            /\ files[sess[s].recPath].dur <= RECORD_SECONDS

\* C7 witness: a healthy call, its recording delivered as well.
C7_Witness ==
    \E s \in Sessions :
        Healthy(s) /\ Has(s, "doc_sent") /\ files[sess[s].recPath].by = s

\* C8: a request that passed the token check is answered with the
\* acknowledgment, whatever the pipeline steps did.
C8_AcceptedIsAcknowledged ==
    \A s \in Sessions : (Accepted(s) /\ Left(s)) => sess[s].resp = "200"

\* Directive blocks in the config: their header lines.
BlockCount(c) ==
    Cardinality({i \in DOMAIN c.text :
                    c.text[i] = "# --- Neurosfera telephony additions ---"})

\* C9: after the first prepare_baresip() every further call leaves the
\* config as it is, and the directive block is not duplicated.
C9_PrepareIdempotent ==
    prepareCalls >= 1 =>
        /\ config = cfgAfterFirst
        /\ BlockCount(config) <= 1

\* C10: once p.wait is over, and whenever the handler has been left, the
\* capture process the session started is no longer running.
C10_NoCaptureLeftAlive ==
    \A s \in Sessions :
        (Left(s) \/ Has(s, "wait_done") \/ Has(s, "wait_timeout")) =>
            sess[s].cap # "running"

\* C12: a failure of tg_send or tg_send_document never leaves the handler
\* by an exception: a handler that awaits a Telegram request is not
\* answered 500 by the step that ends the request.
C12_TelegramFailureNotPropagated ==
    [][\A s \in Sessions :
          sess[s].pc \in {"sum_await", "tr_await", "doc_await"} =>
              sess'[s].resp # "500"]_vars

\* The capture of s ran to its end and left the recording.
RecordingCompleted(s) ==
    /\ sess[s].cap = "exited"
    /\ Has(s, "wait_done")
    /\ RecExists(s)

\* C13: once the recording of a session has completed and stt_from_wav was
\* invoked, the handler is not left before tg_send(transcript) was called
\* and, with Telegram configured, the recording was handed to
\* tg_send_document, whatever the transcription did.
C13_TranscriptionNeverBlocksNotification ==
    \A s \in Sessions :
        (Left(s) /\ RecordingCompleted(s) /\ Has(s, "stt_invoked")) =>
            /\ Has(s, "transcript_call")
            /\ TgConfigured => Has(s, "doc_call")

\* The lines session s wrote to the FIFO.
FifoLinesOf(s) == Len(SelectSeq(fifo, LAMBDA w : w = s))

\* C14: when the FIFO is missing, auplay writes nothing, the failure is
\* logged and stays inside the handler: start_record is still called (it
\* spawns the capture unless Popen itself fails) and no 500 is answered for
\* the greeting.
C14_MissingFifoContained ==
    \A s \in Sessions :
        Has(s, "auplay_failed") =>
            /\ FifoLinesOf(s) = 0
            /\ \/ sess[s].pc = "record"
               \/ Has(s, "rec_start")
               \/ sess[s].cap = "unavailable"

\* The FIFO was missing and the capture of the same call is running.
C14_Witness ==
    \E s \in Sessions :
        /\ Has(s, "auplay_failed")
        /\ Precedes(s, "auplay_failed", "rec_start")
        /\ sess[s].cap = "running"

\* The calls whose ffmpeg capture is running.
CapturesAlive == {s \in Overlapping : sess[s].cap = "running"}

\* C15: access to the capture device is serialized: at any time at most one
\* capture is alive, also when calls overlap.
C15_CaptureSerialized == Cardinality(CapturesAlive) <= 1

\* The handler of s is between its start and its end.
InFlight(s) == sess[s].pc \notin {"idle", "done"}

\* C16: two calls that overlap in time record to distinct paths.
C16_DistinctRecordingPaths ==
    \A s, t \in Overlapping :
        (s # t /\ InFlight(s) /\ InFlight(t)
             /\ sess[s].recPath # NoPath /\ sess[t].recPath # NoPath) =>
            sess[s].recPath # sess[t].recPath

\* C11: after shutdown() no baresip process is alive, whichever path it
\* took: a running process that exits on SIGTERM, one that does not and is
\* killed after the wait, or nothing to stop; a handle that is kept does
\* not poll as running.
C11_ShutdownStops ==
    /\ shutdownResult # "none" => ~(baresip_proc # "None" /\ PollIsNone)
    /\ shutdownResult = "graceful" => agent.state = "terminated"
    /\ shutdownResult = "forced" => agent.state = "killed"
    /\ shutdownResult = "noop" => agent.state # "running"

\* shutdown() had to kill a process that did not exit on SIGTERM.
C11_Witness ==
    /\ shutdownResult = "forced"
    /\ baresip_proc # "None"
    /\ agent.state = "killed"

====
